---- MODULE Spec2Model ----
(***************************************************************************)
(* The transaction submission pipeline of the vault agent                  *)
(* (src/flow-vault-agent/main.py): the tools deposit_new_funds_into_       *)
(* strategy, simulate_yield_harvest_and_deposit and trigger_lottery_draw,  *)
(* the helper send_transaction, and the chain they talk to.  Every RPC     *)
(* call of a tool is one atomic step, so that tool invocations running in  *)
(* different executor threads interleave between their calls.  The agent   *)
(* variable selects the flow program or the near program                   *)
(* (src/near-vault-agent/main.py), whose tools have no try/except.         *)
(*                                                                         *)
(* A second specification, AuroraSpec, follows one request through the     *)
(* Aurora servers: the direct endpoints /rebalance and /harvest with       *)
(* optimize_allocation (src/near-vault-agent/aurora_multi_vault_agent.py)  *)
(* and the scheduler's pass of start_automated_optimization                *)
(* (src/near-vault-agent/aurora_multi_vault_agent.py), and the tools       *)
(* deploy_to_aurora_strategy_with_risk_check,                              *)
(* simulate_aurora_yield_harvest_and_deposit and                           *)
(* trigger_aurora_lottery_draw                                             *)
(* (src/near-vault-agent/enhanced_aurora_vault_agent.py).                  *)
(***************************************************************************)
EXTENDS Integers, Sequences, FiniteSets

\* ------------------------------------------------------------- bounds
MaxInvocations == 2    \* tool invocations in one behaviour, each in its own
                       \* executor thread; they overlap or follow each other
PollStep == 120        \* seconds that pass between two receipt polls

\* ------------------------------------------------- program constants
TIMEOUT == 120         \* wait_for_transaction_receipt(tx_hash, timeout=120)

Procs == 1..MaxInvocations

Tools == {"deposit_new_funds", "simulate_yield", "trigger_draw"}

\* amount_usdc inputs of simulate_yield_harvest_and_deposit, in cents
\* (15050 is 150.50 USDC, 201 is 2.01 USDC)
AmountInputs == {15050, 201}

\* The values c of AmountInputs for which the binary64 product
\* float(c/100) * 10**6 lies
\* just below the exact value c * 10^4 (2.01 * 10**6 = 2009999.9999999998).
InexactCents == {201}

\* liquid USDC of the vault at start, in micro-USDC (5 USDC); the prize pool
\* starts empty
InitialLiquid == {5000000}

VARIABLES
  pc,          \* pc[p]: where invocation p stands
  tool,        \* tool[p]: the tool p runs
  arg,         \* arg[p]: amount_usdc of simulate_yield, in cents
  step,        \* step[p]: 1..3, the step of the sequence p is at
  view,        \* view[p]: the balance the tool read with a view call
               \* (NotRead before the call returns)
  tx,          \* tx[p]: the transaction request p built
  waited,      \* waited[p]: seconds spent in wait_for_transaction_receipt
  ret,         \* ret[p]: the string the tool returned
  failedAt,    \* failedAt[p]: the step whose send_transaction returned
               \* success False (0: none did)
  sent,        \* sent[p]: every send_raw_transaction call of p, in order
  result,      \* result[p]: what p's last send_transaction call returned
  agent,       \* the program that runs: "flow" (src/flow-vault-agent/main.py)
               \* or "near" (src/near-vault-agent/main.py)
  txCount,     \* chain: confirmed transaction count of the agent account
  vaultLiquid, \* chain: usdc.balanceOf(VAULT_ADDRESS)
  prizePool,   \* chain: vrf_strategy.getBalance()
  agentUsdc,   \* chain: USDC in the agent's wallet
  allowance,   \* chain: USDC the VRF strategy may spend for the agent
  mintOpen,    \* chain: the mock USDC lets the agent account mint
  \* --- the Aurora multi-strategy server (one request at a time)
  request,     \* the endpoint or tool being served ("none": no request yet)
  apc,         \* where the handler of the request stands
  total_assets,\* vault_contract.functions.totalAssets().call(), as read
  allocation,  \* what optimize_allocation returned (NoAllocation before)
  attempts,    \* the transactions the handler built, each with its outcome
  toolOut,     \* the string the tool returned to the endpoint
  response,    \* the JSON object the endpoint answered with
  risk_api,    \* the risk model was loaded at start-up (risk_api is not None)
  strategy,    \* strategy_name and strategy_address of the deploy tool
  amount,      \* amount of the deploy tool, in micro-USDC
  assessment,  \* what became of the risk assessment in the deploy tool
  current,     \* chain: the share each protocol holds of the vault when
               \* the rebalance tool is invoked, in percent
  prize_pool   \* vrf_strategy_contract.functions.getBalance().call(), as
               \* read by the draw tool, in hundredths of a USDC

auroraVars == <<request, apc, total_assets, allocation, attempts, toolOut,
                response, risk_api, strategy, amount, assessment,
                current, prize_pool>>

vars == <<pc, tool, arg, step, view, tx, waited, ret, failedAt, sent,
          result, agent,
          txCount, vaultLiquid, prizePool, agentUsdc, allowance, mintOpen,
          auroraVars>>

chainVars == <<txCount, vaultLiquid, prizePool, agentUsdc, allowance, mintOpen>>

pipelineVars == <<pc, tool, arg, step, view, tx, waited, ret, failedAt, sent,
                  result, agent, chainVars>>

NotRead == -1

NoTx == [method |-> "none", amount |-> 0, nonce |-> 0]

Mined == {"ok", "revert"}

Agents == {"flow", "near"}

\* No send_transaction call has returned yet.
NoResult == [success |-> FALSE, error |-> "none", receipt |-> "none"]

\* return {"success": True, "receipt": receipt}
Success(receipt) == [success |-> TRUE, error |-> "", receipt |-> receipt]

\* return {"success": False, "error": str(e)}
Failure(exc) == [success |-> FALSE, error |-> exc, receipt |-> "none"]

\* What send_transaction can catch: the node's answer to a bad submission,
\* signing and connection errors, and TimeExhausted of the wait.
Exceptions == {"sign", "rejected", "timeout", "connection"}

\* ------------------------------------------------------ pure functions

\* Integer part of the binary64 product amount_usdc * 10**6.
FloatTimesMillion(c) == IF c \in InexactCents THEN c * 10000 - 1 ELSE c * 10000

\* amount_wei = int(amount_usdc * (10**6))
ToWei(c) == FloatTimesMillion(c)

\* The three steps of simulate_yield_harvest_and_deposit, in program order.
StepMethod(i) ==
  CASE i = 1 -> "mint"
    [] i = 2 -> "approve"
    [] OTHER -> "depositYield"

\* The number of transactions a tool sends when nothing fails.
StepsOf(t) == IF t = "simulate_yield" THEN 3 ELSE 1

\* A sequence that sends the step it has just sent once more.
SameStepAgain(k) == k

\* The step after step k: the tool body runs top to bottom, there is no loop
\* and no retry.
NextStep(k) == k + 1

\* The contract method a tool's step calls.
MethodOf(t, i) ==
  CASE t = "deposit_new_funds" -> "depositToStrategy"
    [] t = "trigger_draw" -> "harvestStrategy"
    [] OTHER -> StepMethod(i)

\* A guard that lets a zero balance through.
NoNewFundsNegative(v) == v < 0

\* if liquid_usdc_wei == 0: return "No new funds ..."
NoNewFunds(v) == v = 0

\* A guard that lets an empty prize pool through.
PrizePoolNegative(v) == v < 0

\* if prize_pool_wei == 0: return "Cannot trigger draw ..."
PrizePoolEmpty(v) == v = 0

\* The string a tool returns when send_transaction reports success False.
FailureMessage(t, i) ==
  CASE t = "deposit_new_funds" -> "Failed to deposit funds"
    [] t = "trigger_draw" -> "Failed to trigger lottery draw"
    [] i = 1 -> "Failed to mint mock yield"
    [] i = 2 -> "Failed to approve yield deposit"
    [] OTHER -> "Failed to deposit yield"

SuccessMessage(t) ==
  CASE t = "deposit_new_funds" -> "Successfully deposited"
    [] t = "trigger_draw" -> "Lottery draw successful"
    [] OTHER -> "Successfully simulated and deposited"

\* The string of the tool's outermost except clause.
ErrorMessage(t) ==
  CASE t = "deposit_new_funds" -> "Error depositing funds"
    [] t = "trigger_draw" -> "Error triggering lottery draw"
    [] OTHER -> "Error simulating yield harvest"

\* Some transaction with nonce n waits in a node's pool.
PendingWithNonce(n) ==
  \E q \in Procs : \E i \in 1..Len(sent[q]) :
     sent[q][i].status = "pending" /\ sent[q][i].nonce = n

\* ------------------------------------- the Aurora multi-strategy server

\* Weights are in percent (0.40 is 40); amounts in micro-USDC.
Keys == {"ref_finance", "trisolaris", "bastion", "reserve"}

\* json.loads reads the literal NaN as the float nan.
NaN == 1000000

\* The weights an LLM reply can give a key.  All finite ones are multiples
\* of 0.05, so that no sum falls on the edge of the tolerance, where the
\* binary64 sum decides.
WeightInputs == {-10, 0, 5, 10, 30, 50, 55, NaN}

DEFAULT_ALLOCATION ==
  [ref_finance |-> 40, trisolaris |-> 30, bastion |-> 20, reserve |-> 10]

\* RISK_THRESHOLDS
max_single_protocol == 50
min_reserve == 5

\* abs(total - 1.0) > 0.01
TOLERANCE == 1

\* if total_usdc < 10: return "Insufficient balance for rebalancing"
MIN_REBALANCE == 10000000

NoAllocation == [k \in Keys |-> 0]

\* Float comparisons: every comparison with nan is False.
Gt(x, y) == x # NaN /\ y # NaN /\ x > y
Lt(x, y) == x # NaN /\ y # NaN /\ x < y

\* sum(allocation.values())
Total(a) ==
  IF \E k \in Keys : a[k] = NaN THEN NaN
  ELSE a["ref_finance"] + a["trisolaris"] + a["bastion"] + a["reserve"]

\* abs(total - 1.0)
AbsError(total) ==
  IF total = NaN THEN NaN
  ELSE IF total >= 100 THEN total - 100 ELSE 100 - total

\* _validate_allocation
validate_allocation(a) ==
  /\ ~Gt(AbsError(Total(a)), TOLERANCE)
  /\ \A k \in Keys \ {"reserve"} : ~Gt(a[k], max_single_protocol)
  /\ ~Lt(a["reserve"], min_reserve)

\* What self.llm.invoke(prompt) can do: raise, answer without a JSON
\* object, or answer with a JSON object giving each key a weight.
LLMReplies ==
  {[kind |-> k, allocation |-> NoAllocation] : k \in {"raises", "text"}}
    \cup {[kind |-> "json", allocation |-> a] : a \in [Keys -> WeightInputs]}

\* AuroraAIOptimizer.optimize_allocation
optimize_allocation(reply) ==
  IF reply.kind = "json" /\ validate_allocation(reply.allocation)
    THEN reply.allocation
    ELSE DEFAULT_ALLOCATION

\* int(weight * total_assets); int() of nan raises ValueError
CanConvert(weight) == weight # NaN
TargetAmount(weight, total) == (total \div 100) * weight

\* target_values = [target_amounts.get("ref_finance", 0), ...]
target_values(a, total) ==
  [i \in 1..3 |->
     TargetAmount(a[<<"ref_finance", "trisolaris", "bastion">>[i]], total)]

\* sum(target_values)
SumOfTargets(a, total) ==
  target_values(a, total)[1] + target_values(a, total)[2]
    + target_values(a, total)[3]

\* The direct endpoints and the tool each one invokes.
Endpoints == {"/rebalance", "/harvest"}

\* What becomes of a transaction the handler built and tries to send:
\* signing raises ("unsent"), the node refuses it ("rejected"), the wait
\* times out ("pending"), or a receipt comes back with status 1 ("ok") or
\* status 0 ("revert").
Outcomes == {"unsent", "rejected", "pending", "ok", "revert"}

\* sign_transaction, send_raw_transaction or wait_for_transaction_receipt
\* raised.
SendRaised(o) == o \in {"unsent", "rejected", "pending"}

NoResponse == [success |-> FALSE, body |-> "none"]

\* The total_assets values the vault can report: 5 USDC, one micro-USDC
\* less than 10 USDC, 10 USDC and 100 USDC.
TotalAssetsInputs == {5000000, 9999999, 10000000, 100000000}

\* The comparison made on total_assets itself, without the division.
BelowTenUnits(t) == t < 10

\* total_usdc = total_assets / (10**6);  if total_usdc < 10
BelowMinimum(t) == t < MIN_REBALANCE

\* The harvest loop's strategies, in order.
HarvestTargets == <<"ref_finance", "trisolaris", "bastion">>

\* RISK_THRESHOLDS["rebalance_threshold"]: "Rebalance if >5% drift"
rebalance_threshold == 5

\* What the vault can hold when a rebalance is asked for: the default
\* allocation, or everything still in the reserve.
CurrentAllocations ==
  {DEFAULT_ALLOCATION,
   [ref_finance |-> 0, trisolaris |-> 0, bastion |-> 0, reserve |-> 100]}

\* The distance between two weights.
AbsDiff(x, y) ==
  IF x = NaN \/ y = NaN THEN NaN ELSE IF x >= y THEN x - y ELSE y - x

\* The holdings cur are further from the allocation target than the
\* rebalance threshold in some protocol.
Drifted(cur, target) ==
  \E k \in Keys : Gt(AbsDiff(cur[k], target[k]), rebalance_threshold)

\* --- deploy_to_aurora_strategy_with_risk_check

VRF_STRATEGY_ADDRESS == "vrf"

StrategyNames == {"aurora_vrf", "ref_finance", "trisolaris", "compound"}

\* The keys of AURORA_STRATEGIES whose address the environment can set.
Deployable == {"ref_finance", "trisolaris"}

NoStrategy == [name |-> "none", address |-> ""]

\* "Handle strategy name mapping": the name and the address the tool goes
\* on with, given the keys of AURORA_STRATEGIES that have an address.
Resolve(name, deployed) ==
  IF name \in deployed THEN [name |-> name, address |-> name]
  ELSE IF name \in {"aurora_vrf", "vrf"}
    THEN [name |-> name, address |-> VRF_STRATEGY_ADDRESS]
  ELSE IF name = "ref_finance"
    THEN [name |-> "aurora_vrf", address |-> ""]
  ELSE [name |-> name, address |-> ""]

\* Risk scores, in hundredths (0.70 is 70).
RiskScores == {20, 60, 70, 75, 90}

NotAssessed == [state |-> "none", score |-> 0]

\* A tool that blocks only above the emergency exit threshold.
BlockedAboveExit(score) == score > 80

\* if risk_score > 0.7: return "DEPLOYMENT BLOCKED ..."
Blocked(score) == score > 70

\* if risk_api and strategy_address != VRF_STRATEGY_ADDRESS
Assesses(api, address) == api /\ address # VRF_STRATEGY_ADDRESS

\* The liquid USDC of the vault the deploy tool can read: 0 and 100 USDC.
LiquidInputs == {0, 100000000}

\* The amount argument of the deploy tool: 0 (default) and 50 USDC.
DeployAmounts == {0, 50000000}

\* "Set reasonable amount if not specified"
DefaultAmount(st, liquid) ==
  IF st.name \in {"aurora_vrf", "vrf"}
    THEN IF liquid \div 2 < 150000000 THEN liquid \div 2 ELSE 150000000
    ELSE (liquid \div 10) * 8

\* simulate_aurora_yield_harvest_and_deposit refuses more than 1000 USDC.
MAX_SIMULATED == 1000000000

\* The amount_usdc arguments the agent executor passes to the simulation
\* tool, in micro-USDC: -1, 0, 1, 1000, 1000.000001 and 2000 USDC.
SimulateAmounts ==
  {-1000000, 0, 1000000, 1000000000, 1000000001, 2000000000}

\* if amount_usdc > 1000
TooHigh(a) == a > MAX_SIMULATED

\* The check that lets an amount of zero through.
NegativeAmount(a) == a < 0

\* if amount_usdc <= 0
InvalidAmount(a) == a <= 0

\* if prize_amount > 10000, in hundredths of a USDC
MAX_PRIZE == 1000000

\* What getBalance() can return to the draw tool, in hundredths of a USDC:
\* nothing, 50 USDC, 10000 USDC, 10000.01 USDC and 20000 USDC.
PrizePoolInputs == {0, 5000, 1000000, 1000001, 2000000}

\* A draw tool without the safety check.
NoSafetyLimit(v) == FALSE

\* prize_amount = prize_pool_wei / 10**6;  if prize_amount > 10000
AboveSafetyLimit(v) == v > MAX_PRIZE

AuroraIdle ==
  /\ request = "none"
  /\ apc = "idle"
  /\ total_assets = 0
  /\ allocation = NoAllocation
  /\ attempts = << >>
  /\ toolOut = "none"
  /\ response = NoResponse
  /\ risk_api = FALSE
  /\ strategy = NoStrategy
  /\ amount = 0
  /\ assessment = NotAssessed
  /\ current = NoAllocation
  /\ prize_pool = 0

\* --------------------------------------------------------------- Init
Init ==
  /\ pc = [p \in Procs |-> "idle"]
  /\ tool = [p \in Procs |-> "none"]
  /\ arg = [p \in Procs |-> 0]
  /\ step = [p \in Procs |-> 1]
  /\ view = [p \in Procs |-> NotRead]
  /\ tx = [p \in Procs |-> NoTx]
  /\ waited = [p \in Procs |-> 0]
  /\ ret = [p \in Procs |-> "none"]
  /\ failedAt = [p \in Procs |-> 0]
  /\ sent = [p \in Procs |-> << >>]
  /\ result = [p \in Procs |-> NoResult]
  /\ agent \in Agents
  /\ txCount = 0
  /\ vaultLiquid \in InitialLiquid
  /\ prizePool = 0
  /\ agentUsdc = 0
  /\ allowance = 0
  /\ mintOpen \in BOOLEAN
  /\ AuroraIdle

\* p's tool returns the string msg.
Return(p, msg) ==
  /\ pc' = [pc EXCEPT ![p] = "done"]
  /\ ret' = [ret EXCEPT ![p] = msg]
  /\ tx' = [tx EXCEPT ![p] = NoTx]
  /\ waited' = [waited EXCEPT ![p] = 0]

\* An exception leaves p's tool: the tool returns nothing.
Raise(p) ==
  /\ pc' = [pc EXCEPT ![p] = "raised"]
  /\ tx' = [tx EXCEPT ![p] = NoTx]
  /\ waited' = [waited EXCEPT ![p] = 0]
  /\ UNCHANGED ret

\* The body of every tool of this program is wrapped in try/except Exception
\* (the tools of src/near-vault-agent/main.py have no try).
Guarded(a) == a = "flow"

\* A call of the tool body outside send_transaction raises.
ToolRaises(p) ==
  IF Guarded(agent) THEN Return(p, ErrorMessage(tool[p])) ELSE Raise(p)

\* A tool that refuses a call it has already completed with this argument.
DeduplicatedByArgument(p, t, a) ==
  \E q \in Procs \ {p} :
     tool[q] = t /\ arg[q] = a /\ pc[q] = "done" /\ ret[q] = SuccessMessage(t)

\* No tool keeps a record of its earlier calls: no idempotency key, no
\* check of what an earlier call already did.
Deduplicated(p, t, a) == FALSE

\* The agent executor calls a tool (invocations are numbered as they start).
Invoke(p) ==
  /\ pc[p] = "idle"
  /\ \A q \in Procs : q < p => pc[q] # "idle"
  /\ \E t \in Tools :
       /\ tool' = [tool EXCEPT ![p] = t]
       /\ IF t = "simulate_yield"
            THEN /\ \E a \in AmountInputs :
                      /\ ~Deduplicated(p, t, a)
                      /\ arg' = [arg EXCEPT ![p] = a]
                 /\ pc' = [pc EXCEPT ![p] = "build"]
            ELSE /\ ~Deduplicated(p, t, 0)
                 /\ arg' = [arg EXCEPT ![p] = 0]
                 /\ pc' = [pc EXCEPT ![p] = "read"]
  /\ UNCHANGED <<step, view, ret, failedAt, tx, waited, sent, result, agent,
                 chainVars>>
  /\ UNCHANGED auroraVars

\* ----------------------------------------------------- the tool steps

\* The read the tool starts with, and its early return.
Refuses(t, v) == IF t = "deposit_new_funds" THEN NoNewFunds(v) ELSE PrizePoolEmpty(v)

RefusalMessage(t) ==
  IF t = "deposit_new_funds" THEN "No new funds in the vault to deposit"
  ELSE "Cannot trigger draw: The prize pool is zero"

\* usdc.balanceOf(VAULT_ADDRESS).call() / vrf_strategy.getBalance().call()
ReadBalance(p) ==
  /\ pc[p] = "read"
  /\ \/ \* the view call raises
        /\ ToolRaises(p)
        /\ UNCHANGED view
     \/ LET v == IF tool[p] = "deposit_new_funds" THEN vaultLiquid ELSE prizePool
        IN /\ view' = [view EXCEPT ![p] = v]
           /\ IF Refuses(tool[p], v)
                THEN Return(p, RefusalMessage(tool[p]))
                ELSE /\ pc' = [pc EXCEPT ![p] = "build"]
                     /\ UNCHANGED <<ret, tx, waited>>
  /\ UNCHANGED <<tool, arg, step, failedAt, sent, result, agent, chainVars>>
  /\ UNCHANGED auroraVars

\* The amount argument of the contract call p builds.
AmountOf(p) ==
  CASE tool[p] = "deposit_new_funds" -> view[p]
    [] tool[p] = "trigger_draw" -> 0
    [] OTHER -> ToWei(arg[p])

\* A per-account lock held from the nonce read to the end of the wait.
MayReadNonceLocked(p) == \A q \in Procs \ {p} : pc[q] \notin {"send", "wait"}

\* Nothing stands between a tool and get_transaction_count: no lock, no
\* allocator.
MayReadNonce(p) == TRUE

\* A builder that numbers its transactions itself, from the confirmed count
\* and the transactions this invocation has sent.
NonceForCounted(p) == txCount + Len(sent[p])

\* 'nonce': w3.eth.get_transaction_count(agent_account.address)
NonceFor(p) == txCount

\* The unsigned request build_transaction returns: the encoded call and the
\* nonce ('from', 'gas', 'gasPrice' and 'chainId' are the same in every
\* request of a run).
Payload(method, argument, nonce) ==
  [method |-> method, amount |-> argument, nonce |-> nonce]

\* <contract>.functions.<method>(...).build_transaction({...})
BuildTx(p) ==
  /\ pc[p] = "build"
  /\ MayReadNonce(p)
  /\ \/ \* get_transaction_count, gas_price or the encoding raises
        /\ ToolRaises(p)
        /\ UNCHANGED result
     \/ /\ tx' = [tx EXCEPT ![p] = Payload(MethodOf(tool[p], step[p]),
                                           AmountOf(p), NonceFor(p))]
        /\ pc' = [pc EXCEPT ![p] = "send"]
        /\ result' = [result EXCEPT ![p] = NoResult]
        /\ UNCHANGED <<ret, waited>>
  /\ UNCHANGED <<tool, arg, step, view, failedAt, sent, agent, chainVars>>
  /\ UNCHANGED auroraVars

\* A sequence that ignores the success flag of a step.
ContinuesAlways(success) == TRUE

\* The sequence goes on to its next step: `if not result["success"]: return`.
ContinuesAfter(success) == success

\* What the tool does with the result of send_transaction.
AfterSend(p, success) ==
  /\ failedAt' = IF success THEN failedAt ELSE [failedAt EXCEPT ![p] = step[p]]
  /\ IF step[p] < StepsOf(tool[p])
         THEN IF ContinuesAfter(success)
                THEN \* time.sleep(2), then the next step
                     /\ pc' = [pc EXCEPT ![p] = "build"]
                     /\ step' = [step EXCEPT ![p] = NextStep(@)]
                     /\ tx' = [tx EXCEPT ![p] = NoTx]
                     /\ waited' = [waited EXCEPT ![p] = 0]
                     /\ UNCHANGED ret
                ELSE /\ Return(p, FailureMessage(tool[p], step[p]))
                     /\ UNCHANGED step
         ELSE /\ UNCHANGED step
              /\ IF success
                   THEN IF tool[p] = "trigger_draw"
                          THEN \* time.sleep(2); lastWinner().call() may raise
                               \/ Return(p, SuccessMessage(tool[p]))
                               \/ ToolRaises(p)
                          ELSE Return(p, SuccessMessage(tool[p]))
                   ELSE Return(p, FailureMessage(tool[p], step[p]))

\* A send_transaction that catches nothing but the revert of a call.
CatchesLogicErrorOnly(exc) == exc = "logic"

\* except ContractLogicError ... except Exception: every exception raised
\* inside send_transaction is caught there.
Catches(exc) == exc \in Exceptions

\* send_transaction returns the dictionary r to the tool.
SendReturns(p, r) ==
  /\ result' = [result EXCEPT ![p] = r]
  /\ AfterSend(p, r.success)

\* signing, sending or waiting raises exc inside send_transaction.
SendFails(p, exc) ==
  IF Catches(exc)
    THEN SendReturns(p, Failure(exc))
    ELSE Raise(p) /\ UNCHANGED <<result, step, failedAt>>

\* The record of one send_raw_transaction call.
Entry(p, status) ==
  [method |-> tx[p].method,
   amount |-> tx[p].amount, nonce |-> tx[p].nonce, status |-> status,
   fresh |-> tx[p].nonce >= txCount]

\* send_transaction, up to send_raw_transaction: sign and broadcast.
SignAndSend(p) ==
  /\ pc[p] = "send"
  /\ \/ \* signing or the connection raises before a node sees the bytes
        /\ SendFails(p, "sign")
        /\ UNCHANGED sent
     \/ \* a node answers with an error: nonce too low, or a transaction
        \* with this nonce is already in its pool
        /\ tx[p].nonce < txCount \/ PendingWithNonce(tx[p].nonce)
        /\ sent' = [sent EXCEPT ![p] = Append(@, Entry(p, "rejected"))]
        /\ SendFails(p, "rejected")
     \/ \* a node takes the transaction into its pool
        /\ tx[p].nonce >= txCount
        /\ sent' = [sent EXCEPT ![p] = Append(@, Entry(p, "pending"))]
        /\ pc' = [pc EXCEPT ![p] = "wait"]
        /\ waited' = [waited EXCEPT ![p] = 0]
        /\ UNCHANGED <<ret, tx, step, failedAt, result>>
  /\ UNCHANGED <<tool, arg, view, agent, chainVars>>
  /\ UNCHANGED auroraVars

\* The transaction p waits for.
Current(p) == sent[p][Len(sent[p])]

\* A send_transaction that does not wait for the receipt.
ReceiptAssumed(p) == TRUE

\* wait_for_transaction_receipt found the receipt.
ReceiptObtained(p) == Current(p).status \in Mined

\* A wait without a timeout.
TimedOutNever(w) == FALSE

\* The Timeout of wait_for_transaction_receipt has expired.
TimedOut(w) == w >= TIMEOUT

\* send_transaction, from wait_for_transaction_receipt to its return.
WaitReceipt(p) ==
  /\ pc[p] = "wait"
  /\ \/ /\ ReceiptObtained(p)
        /\ SendReturns(p, Success(Current(p).status))
     \/ \* TimeExhausted, caught by `except Exception`
        /\ ~ReceiptObtained(p)
        /\ TimedOut(waited[p])
        /\ SendFails(p, "timeout")
     \/ \* no receipt yet: sleep one poll interval
        /\ ~ReceiptObtained(p)
        /\ ~TimedOut(waited[p])
        /\ waited' = [waited EXCEPT ![p] = IF @ < TIMEOUT THEN @ + PollStep ELSE @]
        /\ UNCHANGED <<pc, ret, tx, step, failedAt, result>>
  /\ UNCHANGED <<tool, arg, view, sent, agent, chainVars>>
  /\ UNCHANGED auroraVars

\* A receipt query of wait_for_transaction_receipt raises (the connection
\* drops): caught by `except Exception`.
WaitRaises(p) ==
  /\ pc[p] = "wait"
  /\ ~ReceiptObtained(p)
  /\ SendFails(p, "connection")
  /\ UNCHANGED <<tool, arg, view, sent, agent, chainVars>>
  /\ UNCHANGED auroraVars

\* ----------------------------------------------------------- the chain

\* A chain that mines pooled transactions whatever their nonce.
CanMineAnyNonce(e) == e.status = "pending"

\* The chain mines a pooled transaction only at the account's next nonce.
CanMine(e) == e.status = "pending" /\ e.nonce = txCount

\* The contract call executes without reverting.
Executable(e) ==
  CASE e.method = "mint" -> mintOpen
    [] e.method = "depositYield" -> agentUsdc >= e.amount /\ allowance >= e.amount
    [] e.method = "depositToStrategy" -> vaultLiquid >= e.amount
    [] OTHER -> TRUE

\* The state change of a contract call that does not revert.
Effect(e) ==
  /\ vaultLiquid' = IF e.method = "depositToStrategy"
                      THEN vaultLiquid - e.amount ELSE vaultLiquid
  /\ prizePool' = CASE e.method = "depositToStrategy" -> prizePool + e.amount
                    [] e.method = "depositYield" -> prizePool + e.amount
                    [] e.method = "harvestStrategy" -> 0
                    [] OTHER -> prizePool
  /\ agentUsdc' = CASE e.method = "mint" -> agentUsdc + e.amount
                    [] e.method = "depositYield" -> agentUsdc - e.amount
                    [] OTHER -> agentUsdc
  /\ allowance' = CASE e.method = "approve" -> e.amount
                    [] e.method = "depositYield" -> allowance - e.amount
                    [] OTHER -> allowance

\* A block includes one pooled transaction of the agent account: its receipt
\* has status 1, or status 0 when the call reverts.
Mine(q, i) ==
  /\ i \in 1..Len(sent[q])
  /\ CanMine(sent[q][i])
  /\ LET e == sent[q][i] IN
       IF Executable(e)
         THEN /\ sent' = [sent EXCEPT ![q][i].status = "ok"]
              /\ Effect(e)
         ELSE /\ sent' = [sent EXCEPT ![q][i].status = "revert"]
              /\ UNCHANGED <<vaultLiquid, prizePool, agentUsdc, allowance>>
  /\ txCount' = txCount + 1
  /\ UNCHANGED <<pc, tool, arg, step, view, tx, waited, ret, failedAt, result,
                 agent, mintOpen>>
  /\ UNCHANGED auroraVars

MaxSent == 3 * MaxInvocations

Next ==
  \/ \E p \in Procs : Invoke(p)
  \/ \E p \in Procs : ReadBalance(p)
  \/ \E p \in Procs : BuildTx(p)
  \/ \E p \in Procs : SignAndSend(p)
  \/ \E p \in Procs : WaitReceipt(p)
  \/ \E p \in Procs : WaitRaises(p)
  \/ \E q \in Procs : \E i \in 1..MaxSent : Mine(q, i)

Spec == Init /\ [][Next]_vars

\* A thread inside wait_for_transaction_receipt keeps running: its poll loop
\* is scheduled again and again.  Nothing obliges the chain to mine, a node to
\* answer or a call to raise.
FairSpec == Spec /\ \A p \in Procs : WF_vars(WaitReceipt(p))

\* ------------------------------- the Aurora server: handlers, step by step

\* One attempt to send a transaction, with what became of it.
Attempt(method, target, o) == [method |-> method, target |-> target, outcome |-> o]

\* The tool returns the string out: to the endpoint that invoked it, or to
\* the agent executor.
ToolReturns(out) ==
  /\ toolOut' = out
  /\ apc' = IF request \in Endpoints THEN "respond" ELSE "done"

\* A request arrives at a direct endpoint, which invokes its tool.
Accept(e) ==
  /\ apc = "idle"
  /\ request' = e
  /\ apc' = IF e = "/rebalance" THEN "assets" ELSE "harvest"
  /\ IF e = "/rebalance" THEN current' \in CurrentAllocations
                          ELSE UNCHANGED current
  /\ UNCHANGED <<total_assets, allocation, attempts, toolOut, response,
                 risk_api, strategy, amount, assessment, prize_pool>>
  /\ UNCHANGED pipelineVars

\* BackgroundScheduler.start_automated_optimization, one pass of the loop:
\* analyze_aurora_yields.invoke({}) returns a string and sends nothing,
\* then execute_multi_strategy_rebalance.invoke({}) is called.
Cycle ==
  /\ apc = "idle"
  /\ request' = "scheduled"
  /\ apc' = "assets"
  /\ current' \in CurrentAllocations
  /\ UNCHANGED <<total_assets, allocation, attempts, toolOut, response,
                 risk_api, strategy, amount, assessment, prize_pool>>
  /\ UNCHANGED pipelineVars

\* execute_multi_strategy_rebalance: totalAssets().call() and the minimum.
ReadTotalAssets ==
  /\ apc = "assets"
  /\ \/ \* the call raises
        /\ ToolReturns("Rebalancing failed")
        /\ UNCHANGED total_assets
     \/ \E t \in TotalAssetsInputs :
          /\ total_assets' = t
          /\ IF BelowMinimum(t)
               THEN ToolReturns("Insufficient balance for rebalancing")
               ELSE apc' = "optimize" /\ UNCHANGED toolOut
  /\ UNCHANGED <<request, allocation, attempts, response,
                 risk_api, strategy, amount, assessment>>
  /\ UNCHANGED <<current, prize_pool>>
  /\ UNCHANGED pipelineVars

\* optimal_allocation = ai_optimizer.optimize_allocation(protocol_data)
Optimize ==
  /\ apc = "optimize"
  /\ \E reply \in LLMReplies : allocation' = optimize_allocation(reply)
  /\ apc' = "build"
  /\ UNCHANGED <<request, total_assets, attempts, toolOut, response,
                 risk_api, strategy, amount, assessment>>
  /\ UNCHANGED <<current, prize_pool>>
  /\ UNCHANGED pipelineVars

\* target_amounts and vault_contract.functions.rebalance(...).
\* build_transaction: int() of nan and the encoding of a negative uint256
\* raise.
BuildRebalance ==
  /\ apc = "build"
  /\ IF \E k \in Keys \ {"reserve"} :
          \/ ~CanConvert(allocation[k])
          \/ TargetAmount(allocation[k], total_assets) < 0
       THEN ToolReturns("Rebalancing failed")
       ELSE \/ ToolReturns("Rebalancing failed")
            \/ apc' = "send" /\ UNCHANGED toolOut
  /\ UNCHANGED <<request, total_assets, allocation, attempts, response,
                 risk_api, strategy, amount, assessment>>
  /\ UNCHANGED <<current, prize_pool>>
  /\ UNCHANGED pipelineVars

\* sign_transaction, send_raw_transaction, wait_for_transaction_receipt and
\* the return of execute_multi_strategy_rebalance.
SendRebalance ==
  /\ apc = "send"
  /\ \E o \in Outcomes :
       /\ attempts' = Append(attempts, Attempt("rebalance", "vault", o))
       /\ ToolReturns(IF SendRaised(o) THEN "Rebalancing failed"
                      ELSE "Multi-Strategy Rebalance Executed")
  /\ UNCHANGED <<request, total_assets, allocation, response,
                 risk_api, strategy, amount, assessment>>
  /\ UNCHANGED <<current, prize_pool>>
  /\ UNCHANGED pipelineVars

\* harvest_all_aurora_yields: one pass of the loop.  A failure is caught
\* inside the loop, which goes on with the next strategy.
HarvestOne ==
  /\ apc = "harvest"
  /\ \E o \in Outcomes :
       attempts' = Append(attempts,
           Attempt("harvestStrategy", HarvestTargets[Len(attempts) + 1], o))
  /\ IF Len(attempts) + 1 = Len(HarvestTargets)
       THEN ToolReturns("Aurora Yield Harvest Complete")
       ELSE UNCHANGED <<apc, toolOut>>
  /\ UNCHANGED <<request, total_assets, allocation, response,
                 risk_api, strategy, amount, assessment>>
  /\ UNCHANGED <<current, prize_pool>>
  /\ UNCHANGED pipelineVars

\* try: result = <tool>.invoke(...); return {"success": True, "result":
\* result}  except Exception as e: return {"success": False, "error": ...}
EndpointResponse(out) ==
  IF out = "raised" THEN [success |-> FALSE, body |-> "error"]
  ELSE [success |-> TRUE, body |-> out]

\* The endpoint answers.
Respond ==
  /\ apc = "respond"
  /\ response' = EndpointResponse(toolOut)
  /\ apc' = "done"
  /\ UNCHANGED <<request, total_assets, allocation, attempts, toolOut,
                 risk_api, strategy, amount, assessment>>
  /\ UNCHANGED <<current, prize_pool>>
  /\ UNCHANGED pipelineVars

\* The agent executor calls deploy_to_aurora_strategy_with_risk_check: the
\* arguments, the configuration of the run, and the strategy name mapping.
InvokeDeploy ==
  /\ apc = "idle"
  /\ request' = "deploy"
  /\ \E name \in StrategyNames, amt \in DeployAmounts, api \in BOOLEAN,
        deployed \in SUBSET Deployable :
       /\ risk_api' = api
       /\ amount' = amt
       /\ strategy' = Resolve(name, deployed)
       /\ IF Resolve(name, deployed).address = ""
            THEN /\ toolOut' = "Unknown Aurora strategy"
                 /\ apc' = "done"
            ELSE /\ apc' = "assess"
                 /\ UNCHANGED toolOut
  /\ UNCHANGED <<total_assets, allocation, attempts, response, assessment>>
  /\ UNCHANGED <<current, prize_pool>>
  /\ UNCHANGED pipelineVars

\* "# Risk assessment"
AssessRisk ==
  /\ apc = "assess"
  /\ IF Assesses(risk_api, strategy.address)
       THEN \/ \* assess_strategy_risk raises: "proceeding without risk check"
               /\ assessment' = [state |-> "raised", score |-> 0]
               /\ apc' = "liquid"
               /\ UNCHANGED toolOut
            \/ \E sc \in RiskScores :
                 /\ assessment' = [state |-> "scored", score |-> sc]
                 /\ IF Blocked(sc)
                      THEN ToolReturns("DEPLOYMENT BLOCKED - High risk score")
                      ELSE apc' = "liquid" /\ UNCHANGED toolOut
       ELSE /\ assessment' = [state |-> "skipped", score |-> 0]
            /\ apc' = "liquid"
            /\ UNCHANGED toolOut
  /\ UNCHANGED <<request, total_assets, allocation, attempts, response,
                 risk_api, strategy, amount>>
  /\ UNCHANGED <<current, prize_pool>>
  /\ UNCHANGED pipelineVars

\* "# Check available balance" down to the choice of the path.
ReadLiquid ==
  /\ apc = "liquid"
  /\ \/ \* balanceOf raises
        /\ ToolReturns("Error in Aurora risk-checked deployment")
        /\ UNCHANGED amount
     \/ \E liquid \in LiquidInputs :
          LET amt == IF amount = 0 THEN DefaultAmount(strategy, liquid)
                     ELSE amount
          IN /\ amount' = amt
             /\ IF amt > liquid THEN ToolReturns("Insufficient funds")
                ELSE IF amt <= 0 THEN ToolReturns("No funds available to deploy")
                ELSE /\ UNCHANGED toolOut
                     /\ apc' = IF \/ strategy.name = "aurora_vrf"
                                  \/ strategy.address = VRF_STRATEGY_ADDRESS
                                 THEN "simulate" ELSE "deposit"
  /\ UNCHANGED <<request, total_assets, allocation, attempts, response,
                 risk_api, strategy, assessment>>
  /\ UNCHANGED <<current, prize_pool>>
  /\ UNCHANGED pipelineVars

\* The agent executor calls simulate_aurora_yield_harvest_and_deposit.
InvokeSimulate ==
  /\ apc = "idle"
  /\ request' = "simulate"
  /\ amount' \in SimulateAmounts
  /\ apc' = "simulate"
  /\ UNCHANGED <<total_assets, allocation, attempts, toolOut, response,
                 risk_api, strategy, assessment>>
  /\ UNCHANGED <<current, prize_pool>>
  /\ UNCHANGED pipelineVars

\* simulate_aurora_yield_harvest_and_deposit.invoke({"amount_usdc": amount}):
\* one step of mint, approve, depositYield.
SimulateStep ==
  /\ apc = "simulate"
  /\ IF TooHigh(amount)
       THEN /\ ToolReturns("Risk check failed: Simulated yield amount too high")
            /\ UNCHANGED attempts
       ELSE IF InvalidAmount(amount)
       THEN /\ ToolReturns("Invalid amount: Must be greater than 0")
            /\ UNCHANGED attempts
       ELSE \/ \* build_transaction raises
               /\ ToolReturns("Error simulating Aurora yield harvest")
               /\ UNCHANGED attempts
            \/ \E o \in Outcomes :
                 /\ attempts' = Append(attempts,
                       Attempt(StepMethod(Len(attempts) + 1), "vrf", o))
                 /\ IF SendRaised(o)
                      THEN ToolReturns("Failed on Aurora")
                      ELSE IF Len(attempts) + 1 = StepsOf("simulate_yield")
                        THEN ToolReturns("Successfully simulated and deposited")
                        ELSE UNCHANGED <<apc, toolOut>>
  /\ UNCHANGED <<request, total_assets, allocation, response,
                 risk_api, strategy, amount, assessment>>
  /\ UNCHANGED <<current, prize_pool>>
  /\ UNCHANGED pipelineVars

\* "# Execute deployment for other Aurora strategies": depositToStrategy.
DepositToStrategy ==
  /\ apc = "deposit"
  /\ \/ \* build_transaction raises
        /\ ToolReturns("Error in Aurora risk-checked deployment")
        /\ UNCHANGED attempts
     \/ \E o \in Outcomes :
          /\ attempts' = Append(attempts,
                Attempt("depositToStrategy", strategy.address, o))
          /\ ToolReturns(IF SendRaised(o) THEN "Aurora deployment failed"
                         ELSE "Successfully deployed")
  /\ UNCHANGED <<request, total_assets, allocation, response,
                 risk_api, strategy, amount, assessment>>
  /\ UNCHANGED <<current, prize_pool>>
  /\ UNCHANGED pipelineVars

\* The agent executor calls trigger_aurora_lottery_draw.
InvokeDraw ==
  /\ apc = "idle"
  /\ request' = "draw"
  /\ apc' = "pool"
  /\ UNCHANGED <<total_assets, allocation, attempts, toolOut, response,
                 risk_api, strategy, amount, assessment>>
  /\ UNCHANGED <<current, prize_pool>>
  /\ UNCHANGED pipelineVars

\* trigger_aurora_lottery_draw: getBalance().call(), the zero check and
\* the safety check.
ReadPrizePool ==
  /\ apc = "pool"
  /\ \/ \* the call raises
        /\ ToolReturns("Error triggering Aurora lottery draw")
        /\ UNCHANGED prize_pool
     \/ \E v \in PrizePoolInputs :
          /\ prize_pool' = v
          /\ IF v = 0
               THEN ToolReturns("Cannot trigger draw: The Aurora prize pool is zero")
               ELSE IF AboveSafetyLimit(v)
               THEN ToolReturns("Safety check: Aurora prize amount is very large")
               ELSE apc' = "draw" /\ UNCHANGED toolOut
  /\ UNCHANGED <<request, total_assets, allocation, attempts, response,
                 risk_api, strategy, amount, assessment, current>>
  /\ UNCHANGED pipelineVars

\* trigger_aurora_lottery_draw: harvestStrategy(VRF_STRATEGY_ADDRESS, b''),
\* send_transaction(tx) and lastWinner().call().
SendDraw ==
  /\ apc = "draw"
  /\ \/ \* build_transaction raises
        /\ ToolReturns("Error triggering Aurora lottery draw")
        /\ UNCHANGED attempts
     \/ \E o \in Outcomes :
          /\ attempts' = Append(attempts,
                Attempt("harvestStrategy", VRF_STRATEGY_ADDRESS, o))
          /\ IF SendRaised(o)
               THEN ToolReturns("Failed to trigger Aurora lottery draw")
               ELSE \/ ToolReturns("Aurora lottery draw successful")
                    \/ \* lastWinner().call() raises
                       ToolReturns("Error triggering Aurora lottery draw")
  /\ UNCHANGED <<request, total_assets, allocation, response,
                 risk_api, strategy, amount, assessment>>
  /\ UNCHANGED <<current, prize_pool>>
  /\ UNCHANGED pipelineVars

AuroraInit == Init /\ agent = "flow" /\ mintOpen

AuroraNext ==
  \/ \E e \in Endpoints : Accept(e)
  \/ Cycle
  \/ ReadTotalAssets
  \/ Optimize
  \/ BuildRebalance
  \/ SendRebalance
  \/ HarvestOne
  \/ Respond
  \/ InvokeDeploy
  \/ AssessRisk
  \/ ReadLiquid
  \/ InvokeSimulate
  \/ SimulateStep
  \/ DepositToStrategy
  \/ InvokeDraw
  \/ ReadPrizePool
  \/ SendDraw

AuroraSpec == AuroraInit /\ [][AuroraNext]_vars

\* =============================================================== claims

\* The positions of all send_raw_transaction calls: <<invocation, index>>.
Sends == {<<p, i>> \in Procs \X (1..MaxSent) : i <= Len(sent[p])}

\* C1: whenever deposit_new_funds_into_strategy reads a liquid balance of 0,
\* it returns the no-op message and has neither built nor sent a
\* transaction.
C1_NoDepositOnZeroBalance ==
  \A p \in Procs :
    (tool[p] = "deposit_new_funds" /\ view[p] = 0) =>
       /\ pc[p] = "done"
       /\ ret[p] = RefusalMessage("deposit_new_funds")
       /\ tx[p] = NoTx
       /\ sent[p] = << >>

\* The deposit tool has read 0 after an earlier deposit emptied the vault.
C1_Witness ==
  \E p \in Procs :
    /\ tool[p] = "deposit_new_funds" /\ view[p] = 0 /\ pc[p] = "done"
    /\ vaultLiquid = 0 /\ txCount > 0

\* C2: whenever trigger_lottery_draw reads a prize pool of 0, it returns the
\* rejection message and has neither built nor sent a transaction.
C2_NoDrawOnEmptyPool ==
  \A p \in Procs :
    (tool[p] = "trigger_draw" /\ view[p] = 0) =>
       /\ pc[p] = "done"
       /\ ret[p] = RefusalMessage("trigger_draw")
       /\ tx[p] = NoTx
       /\ sent[p] = << >>

\* The draw tool has read an empty prize pool and returned.
C2_Witness ==
  \E p \in Procs :
    tool[p] = "trigger_draw" /\ view[p] = 0 /\ pc[p] = "done" /\ prizePool = 0

\* C3 (as claimed): a simulate_yield invocation in which every step succeeds
\* has sent exactly mint, approve, depositYield, in this order, each with the
\* amount A * 10^6 (A in cents: arg * 10^4).
C3_ThreeSubmissionsExactAmount ==
  \A p \in Procs :
    (/\ tool[p] = "simulate_yield"
     /\ ret[p] = SuccessMessage("simulate_yield")
     /\ \A i \in 1..Len(sent[p]) : sent[p][i].status = "ok") =>
       /\ Len(sent[p]) = 3
       /\ \A i \in 1..3 : /\ sent[p][i].method = StepMethod(i)
                          /\ sent[p][i].amount = arg[p] * 10000

\* C4 (as claimed): once a step's transaction is mined with a revert
\* receipt, no later step is sent and the tool does not report success.
C4_RevertAborts ==
  \A p \in Procs : \A i \in 1..Len(sent[p]) :
    sent[p][i].status = "revert" =>
       /\ Len(sent[p]) = i
       /\ pc[p] \in {"wait", "done"}
       /\ ret[p] # SuccessMessage(tool[p])

\* C5: when send_transaction fails at step k of a tool (signing, sending or
\* waiting raised), the tool has returned the failure message of step k, no
\* step after k was built or sent, nothing but the steps up to k was sent
\* (no compensating call), and the earlier steps stay confirmed.
C5_AbortOnFirstFailure ==
  \A p \in Procs :
    failedAt[p] > 0 =>
       /\ pc[p] = "done"
       /\ ret[p] = FailureMessage(tool[p], failedAt[p])
       /\ step[p] = failedAt[p]
       /\ Len(sent[p]) \in {failedAt[p] - 1, failedAt[p]}
       /\ \A i \in 1..Len(sent[p]) : sent[p][i].method = MethodOf(tool[p], i)
       /\ \A i \in 1..(failedAt[p] - 1) : sent[p][i].status \in Mined

\* The sequence failed at approve, after its mint was confirmed.
C5_Witness ==
  \E p \in Procs :
    /\ tool[p] = "simulate_yield" /\ failedAt[p] = 2 /\ pc[p] = "done"
    /\ sent[p][1].status = "ok"

\* C6: within one invocation every transaction but the last one sent has
\* been mined: a step is sent only once the receipt of the step before it
\* exists, and no two steps of an invocation are in flight together.
C6_StepAfterConfirmation ==
  \A p \in Procs : \A i \in 1..Len(sent[p]) :
    i < Len(sent[p]) => sent[p][i].status \in Mined

\* The second step of a sequence is in flight.
C6_Witness ==
  \E p \in Procs : Len(sent[p]) >= 2 /\ sent[p][2].status = "pending"

\* C7 (as claimed): every transaction handed to send_raw_transaction carries
\* a nonce above all nonces confirmed at that time.
C7_NonceAboveConfirmed ==
  \A s \in Sends : sent[s[1]][s[2]].fresh

\* C8: nonce selection is unguarded: whenever an invocation q has built a
\* transaction with the current count and not sent it, any other invocation
\* about to build can read the same count and build with the same nonce.
C8_NonceRaceOpen ==
  \A p, q \in Procs :
    (p # q /\ pc[p] = "build" /\ pc[q] = "send" /\ tx[q].nonce = txCount) =>
       ENABLED (BuildTx(p) /\ tx'[p].nonce = tx[q].nonce)

\* Two invocations hold built, unsent transactions with the same nonce.
C8_Witness ==
  \E p, q \in Procs :
    /\ p # q /\ pc[p] = "send" /\ pc[q] = "send"
    /\ tx[p].nonce = tx[q].nonce

\* C9: of two transactions with the same nonce that nodes accepted, at most
\* one is ever confirmed.
C9_AtMostOneConfirmedPerNonce ==
  \A s, t \in Sends :
    (s # t /\ sent[s[1]][s[2]].nonce = sent[t[1]][t[2]].nonce) =>
       ~(sent[s[1]][s[2]].status \in Mined /\ sent[t[1]][t[2]].status \in Mined)

\* Two accepted transactions share a nonce; one is mined, the other waits.
C9_Witness ==
  \E s, t \in Sends :
    /\ s # t /\ sent[s[1]][s[2]].nonce = sent[t[1]][t[2]].nonce
    /\ sent[s[1]][s[2]].status \in Mined /\ sent[t[1]][t[2]].status = "pending"

\* C10: the confirmation wait always ends: an invocation inside
\* wait_for_transaction_receipt leaves it, with a receipt or a failure.
C10_WaitEnds ==
  \A p \in Procs : (pc[p] = "wait") ~> (pc[p] # "wait")

\* The timeout has expired without a receipt, and send_transaction then
\* returned a failure while its transaction is still pooled.
C10_Witness ==
  \E p \in Procs :
    /\ pc[p] = "done" /\ failedAt[p] > 0
    /\ Len(sent[p]) = failedAt[p]
    /\ sent[p][failedAt[p]].status = "pending"

\* C11 (as claimed): when the confirmation wait of a step times out, the
\* tool does not report the step as failed: it returns no failure message and
\* marks no step as failed.
C11_TimeoutUndetermined ==
  \A p \in Procs :
    (pc[p] = "done" /\ result[p].error = "timeout") =>
       /\ failedAt[p] = 0
       /\ ret[p] # FailureMessage(tool[p], step[p])

\* C12: within one invocation every step is submitted at most once: a tool
\* never hands more transactions to send_raw_transaction than it has steps,
\* and the i-th one is the call of step i, also after a node's rejection, an
\* error or a timeout.
C12_SubmittedAtMostOnce ==
  \A p \in Procs :
    /\ Len(sent[p]) <= StepsOf(tool[p])
    /\ \A i \in 1..Len(sent[p]) : sent[p][i].method = MethodOf(tool[p], i)
    /\ result[p].error \in Exceptions => (pc[p] = "done" /\ Len(sent[p]) <= step[p])

\* The wait for approve timed out, the tool returned, and approve was mined
\* afterwards without having been sent again.
C12_Witness ==
  \E p \in Procs :
    /\ tool[p] = "simulate_yield" /\ pc[p] = "done"
    /\ result[p].error = "timeout" /\ step[p] = 2
    /\ Len(sent[p]) = 2 /\ sent[p][2].status = "ok"

\* The harvestStrategy call of a draw has been mined.
DrawMined ==
  \E s \in Sends : /\ sent[s[1]][s[2]].method = "harvestStrategy"
                   /\ sent[s[1]][s[2]].status = "ok"

\* C13: the sequence is not idempotent.  After an invocation completed it,
\* the next invocation can call the tool again with the same amount and
\* starts the sequence anew; and when two invocations with the same amount have both completed it
\* with every step executed, there are six submissions with six distinct
\* nonces, and the prize pool holds the amount twice (until a draw pays it
\* out).
C13_NotIdempotent ==
  \A p, q \in Procs :
    (/\ p # q /\ tool[p] = "simulate_yield"
     /\ ret[p] = SuccessMessage("simulate_yield")
     /\ \A i \in 1..Len(sent[p]) : sent[p][i].status = "ok") =>
       /\ (pc[q] = "idle" /\ \A r \in Procs : r < q => pc[r] # "idle") =>
            ENABLED (Invoke(q) /\ tool'[q] = "simulate_yield"
                     /\ arg'[q] = arg[p] /\ pc'[q] = "build")
       /\ (/\ tool[q] = "simulate_yield" /\ arg[q] = arg[p]
           /\ ret[q] = SuccessMessage("simulate_yield")
           /\ \A i \in 1..Len(sent[q]) : sent[q][i].status = "ok") =>
            /\ Len(sent[p]) = 3 /\ Len(sent[q]) = 3
            /\ \A i, j \in 1..3 :
                 /\ sent[p][i].nonce # sent[q][j].nonce
                 /\ i # j => sent[p][i].nonce # sent[p][j].nonce
            /\ ~DrawMined => prizePool >= 2 * ToWei(arg[p])

\* Two invocations with the same amount have run the whole sequence, and the
\* prize pool holds the amount twice.
C13_Witness ==
  \E p, q \in Procs :
    /\ p # q /\ tool[p] = "simulate_yield" /\ tool[q] = "simulate_yield"
    /\ arg[p] = arg[q]
    /\ ret[p] = SuccessMessage("simulate_yield") /\ ret[q] = ret[p]
    /\ \A i \in 1..3 : sent[p][i].status = "ok" /\ sent[q][i].status = "ok"
    /\ prizePool = 2 * ToWei(arg[p]) /\ txCount = 6

\* C14 (as claimed): no tool invocation ends with an exception leaving the
\* tool.
C14_NoToolRaises ==
  \A p \in Procs : pc[p] # "raised"

\* C15: send_transaction never raises.  Every call returns a dictionary:
\* success True with the receipt of the transaction it sent, which exists, or
\* success False with the error and no receipt.  (An exception that leaves a
\* tool right after a call comes from the tool's own lastWinner read, after
\* send_transaction returned success.)
C15_SendNeverRaises ==
  [][\A p \in Procs :
       (pc[p] \in {"send", "wait"} /\ pc'[p] \notin {"send", "wait"}) =>
          /\ result'[p] # NoResult
          /\ result'[p].success =>
               /\ result'[p].receipt \in Mined
               /\ pc[p] = "wait" /\ Current(p).status = result'[p].receipt
               /\ result'[p].error = ""
          /\ ~result'[p].success =>
               /\ result'[p].error \in Exceptions
               /\ result'[p].receipt = "none"
               /\ pc'[p] = "done"
          /\ pc'[p] = "raised" =>
               result'[p].success /\ tool[p] = "trigger_draw"]_vars

\* send_transaction has returned success False after the connection dropped
\* during the wait, and another call has returned a receipt.
C15_Witness ==
  \E p, q \in Procs :
    /\ result[p] = Failure("connection") /\ pc[p] = "done"
    /\ result[q].success /\ result[q].receipt = "ok"

OperationConfirmed ==
  /\ Len(attempts) = IF request = "/rebalance" THEN 1 ELSE Len(HarvestTargets)
  /\ \A i \in 1..Len(attempts) : attempts[i].outcome = "ok"

\* C17 (as claimed): a direct endpoint answers success true exactly when the
\* transactions of its operation were submitted and confirmed, and success
\* false otherwise.
C17_EndpointSuccessMeansConfirmed ==
  (request \in Endpoints /\ apc = "done") =>
     (response.success <=> OperationConfirmed)

\* The deposit-to-strategy attempts of the deploy tool.
Deposits ==
  {i \in 1..Len(attempts) : attempts[i].method = "depositToStrategy"}

\* C18: the deploy tool builds no depositToStrategy transaction in an
\* invocation whose risk assessment returned a score above 0.7; it returns
\* the blocking message and sends nothing.
C18_NoDepositAboveRiskLimit ==
  (request = "deploy" /\ assessment.state = "scored" /\ assessment.score > 70) =>
     /\ Deposits = {}
     /\ attempts = << >>
     /\ apc = "done"
     /\ toolOut = "DEPLOYMENT BLOCKED - High risk score"

\* The assessment returned 0.75 and the tool returned without sending.
C18_Witness ==
  /\ request = "deploy" /\ apc = "done"
  /\ assessment = [state |-> "scored", score |-> 75]
  /\ attempts = << >>

\* C19 (as claimed): whenever the deploy tool has tried a depositToStrategy
\* transaction, a risk assessment of the strategy had returned a score in
\* this invocation.
C19_DepositAfterAssessment ==
  (request = "deploy" /\ Deposits # {}) => assessment.state = "scored"

\* C20 (as claimed): the allocation optimize_allocation returned has weights
\* that sum to 1 within 1%, no protocol weight above 50% and a reserve of at
\* least 5%.
C20_AllocationWithinLimits ==
  (request = "/rebalance" /\ apc \in {"build", "send", "respond", "done"}
     /\ allocation # NoAllocation) =>
     /\ \A k \in Keys : allocation[k] # NaN
     /\ Total(allocation) # NaN
     /\ AbsError(Total(allocation)) <= TOLERANCE
     /\ \A k \in Keys \ {"reserve"} : allocation[k] <= max_single_protocol
     /\ allocation["reserve"] >= min_reserve
\* Attempts of the rebalance call that reached the node.
Rebalances ==
  {i \in 1..Len(attempts) : /\ attempts[i].method = "rebalance"
                            /\ attempts[i].outcome # "unsent"}

\* C21: a rebalance transaction is submitted only when the vault's holdings
\* have drifted from the target allocation by more than the 5% rebalance
\* threshold; otherwise the scheduled cycle submits no rebalance.
C21_RebalanceOnlyOnDrift ==
  request = "scheduled" /\ Rebalances # {} => Drifted(current, allocation)

\* C22: when the vault's total assets are below 10 USDC,
\* execute_multi_strategy_rebalance returns the insufficient-balance
\* message and submits no transaction.
C22_NoRebalanceBelowMinimum ==
  /\ request \in {"/rebalance", "scheduled"}
  /\ total_assets \in TotalAssetsInputs
  /\ total_assets < MIN_REBALANCE
  => /\ toolOut = "Insufficient balance for rebalancing"
     /\ attempts = << >>
     /\ apc \in {"respond", "done"}

\* The tool has read 9.999999 USDC and returned the message to the
\* scheduler without building a transaction.
C22_Witness ==
  /\ request = "scheduled"
  /\ total_assets = 9999999
  /\ toolOut = "Insufficient balance for rebalancing"
  /\ attempts = << >>
  /\ apc = "done"

\* C23: in execute_multi_strategy_rebalance each of the three target
\* amounts passed to the vault's rebalance call is non-negative and their
\* sum never exceeds the vault's total assets, so that the reported reserve
\* is never negative.
C23_TargetsWithinTotalAssets ==
  Rebalances # {} =>
    /\ \A i \in 1..3 : target_values(allocation, total_assets)[i] >= 0
    /\ SumOfTargets(allocation, total_assets) <= total_assets

\* C24: the yield simulation rejects an amount above 1000 USDC or not
\* greater than 0, and submits no transaction in that case.
C24_SimulationRejectsOutOfRange ==
  /\ request = "simulate"
  /\ amount > MAX_SIMULATED \/ amount <= 0
  => /\ attempts = << >>
     /\ apc = "done" =>
          toolOut = IF amount > MAX_SIMULATED
                      THEN "Risk check failed: Simulated yield amount too high"
                      ELSE "Invalid amount: Must be greater than 0"

\* The simulation was asked for an amount of 0 and has returned the
\* invalid-amount message without building a transaction.
C24_Witness ==
  /\ request = "simulate"
  /\ amount = 0
  /\ apc = "done"
  /\ toolOut = "Invalid amount: Must be greater than 0"
  /\ attempts = << >>

\* C25: the lottery draw tool submits no transaction when the prize pool
\* exceeds 10,000 USDC; it returns the safety-check message instead.
C25_NoDrawAboveSafetyLimit ==
  request = "draw" /\ prize_pool > MAX_PRIZE
  => /\ attempts = << >>
     /\ apc = "done"
     /\ toolOut = "Safety check: Aurora prize amount is very large"

\* The draw tool has read a prize pool of 10000.01 USDC and returned the
\* safety-check message without building a transaction.
C25_Witness ==
  /\ request = "draw"
  /\ prize_pool = 1000001
  /\ apc = "done"
  /\ toolOut = "Safety check: Aurora prize amount is very large"
  /\ attempts = << >>

\* The deploy tool was called with strategy_name "ref_finance" while
\* AURORA_STRATEGIES["ref_finance"] is empty: the one case in which the
\* mapping renames the strategy to aurora_vrf and leaves the address empty.
RefFinanceUnset ==
  request = "deploy" /\ strategy = Resolve("ref_finance", {})

\* C26: when the strategy name is "ref_finance" and no Ref Finance strategy
\* address is configured, the risk-checked deploy tool redirects the request
\* to the VRF lottery strategy and goes on with the VRF yield simulation,
\* instead of rejecting the request as an unknown strategy.
C26_RefFinanceRedirectsToVRF ==
  RefFinanceUnset =>
    /\ toolOut # "Unknown Aurora strategy"
    /\ strategy.address = VRF_STRATEGY_ADDRESS

====
